---- MODULE Spec2Model ----
(***************************************************************************)
(* A model of the incremental synchronisation scripts of zadbz/zadbz:      *)
(*   fetch_epl_data.py            run(), update_epl_from_football_data_site,*)
(*                                build_all_seasons_csv, save_odds          *)
(*   update_fbref_team_matchlogs.py  main(), save_league_schedule_csv,      *)
(*                                _anti_join                                *)
(*                                                                         *)
(* A CSV file is a grid of texts; a pandas DataFrame is a grid of typed    *)
(* cells.  pd.read_csv infers one dtype per column (numeric when every     *)
(* non-empty text of the column looks numeric, object otherwise) and       *)
(* to_csv writes each cell back as its text, so a round trip through a file *)
(* is not the identity on typed cells.                                     *)
(***************************************************************************)
EXTENDS Integers, Sequences, FiniteSets, TLC

VARIABLES
    files,      \* data/*.csv : file name -> file record
    log,        \* the messages printed by the operation that ran last
    keyCols,    \* the local key_cols of the merge that ran last
    phase,      \* position of the driver of the current specification
    oddsHist,   \* data/odds/odds_history.csv
    oddsSnaps,  \* data/odds/odds_<ts>.csv : timestamp -> file record
    incoming,   \* the DataFrame handed to save_odds
    clock,      \* the wall clock, in seconds
    tblA,       \* a DataFrame object handed to _anti_join
    tblB,       \* another DataFrame object handed to _anti_join
    diffAB,     \* what _anti_join(tblA, tblB) returned
    diffBA,     \* what _anti_join(tblB, tblA) returned
    ledger,     \* data/E0_hash.txt
    sched,      \* <SEASON_DIR>/<league>/league_schedule.csv : league -> file record
    lastPage,   \* the page the sync of a league that ran last fetched (0: none)
    todo,       \* the leagues the loop of main() has still to visit
    attempted,  \* the sources the current run has attempted, in order
    failed,     \* the sources whose synchronisation failed in the current run
    fetched,    \* the text the EPL update that ran last got from the site
    written     \* the files the step that ran last opened for writing

vars == <<files, log, keyCols, phase, oddsHist, oddsSnaps, incoming, clock,
          tblA, tblB, diffAB, diffBA,
          ledger, sched, lastPage, todo, attempted, failed, fetched, written>>

runVars == <<ledger, sched, lastPage, todo, attempted, failed, fetched, written>>

diffVars == <<tblA, tblB, diffAB, diffBA>>

dirVars == <<files>>

oddsVars == <<oddsHist, oddsSnaps, incoming>>

(***************************************************************************)
(* Bounds of the model.                                                    *)
(***************************************************************************)
MaxRows == 2        \* rows in the files of one directory, in total

MaxClock == 1       \* the last second of the wall clock

MaxDiffRows == 3    \* rows in the two tables handed to _anti_join, in total

MaxLeagues == 2     \* the leagues of LEAGUE_SCHEDULE_PAGES that main() visits

(***************************************************************************)
(* Texts.  The texts a cell may hold, in lexicographic order; "1" and "2"  *)
(* are the numeric-looking ones.  "" is an empty CSV field.                *)
(***************************************************************************)
TextOrder == <<"1", "2", "2014/2015", "2024/2025", "2025/2026", "nan", "x", "y">>

Rank(s) == CHOOSE i \in 1..Len(TextOrder) : TextOrder[i] = s

NumericTexts == {"1", "2"}

NaTexts == {"", "nan"}

SeqToSet(s) == {s[i] : i \in DOMAIN s}

\* the elements of seq at the indices in idx, in increasing order of index
SubseqAt(seq, idx) ==
    [k \in 1..Cardinality(idx) |->
        seq[CHOOSE i \in idx : Cardinality({j \in idx : j < i}) = k - 1]]

(***************************************************************************)
(* Typed cells and DataFrames.                                             *)
(***************************************************************************)
Cell(t, v) == [t |-> t, v |-> v]

NaN == Cell("nan", "")

\* Series.astype(str): every value becomes a string; a missing value
\* becomes the string "nan"
AsTypeStr(c) == IF c.t = "nan" THEN Cell("str", "nan") ELSE Cell("str", c.v)

Frame(cols, rows) == [cols |-> cols, rows |-> rows]

EmptyFrame == Frame(<<>>, <<>>)

\* df[c] = value for every row: overwrite column c or append it as last column
WithColumn(df, c, cell) ==
    LET cols == IF c \in SeqToSet(df.cols) THEN df.cols ELSE Append(df.cols, c)
    IN  Frame(cols,
              [i \in DOMAIN df.rows |->
                  [d \in SeqToSet(cols) |-> IF d = c THEN cell ELSE df.rows[i][d]]])

\* df[c] = df[c].astype(str)
CoerceColumn(df, c) ==
    Frame(df.cols,
          [i \in DOMAIN df.rows |->
              [d \in SeqToSet(df.cols) |->
                  IF d = c THEN AsTypeStr(df.rows[i][d]) ELSE df.rows[i][d]]])

(***************************************************************************)
(* The ledger file and the schedule files.                                 *)
(***************************************************************************)
NoLedger == [exists |-> FALSE, text |-> ""]

LedgerText(t) == [exists |-> TRUE, text |-> t]

LEAGUE_SCHEDULE_PAGES == <<"ENG-Premier_League", "ESP-La_Liga", "ITA-Serie_A",
                           "GER-Bundesliga", "FRA-Ligue_1">>

\* the leagues of the model, in the order the dictionary lists them
Leagues == SubSeq(LEAGUE_SCHEDULE_PAGES, 1, MaxLeagues)

(***************************************************************************)
(* Files.  kind: "absent"; "empty" (zero bytes); "csv" (clean utf-8);      *)
(* "latin1" (clean, but not decodable as utf-8); "ragged" (its last line   *)
(* has too many fields).                                                   *)
(***************************************************************************)
File(kind, cols, rows) == [kind |-> kind, cols |-> cols, rows |-> rows]

Absent == File("absent", <<>>, <<>>)

EmptyFile == File("empty", <<>>, <<>>)

\* read_csv's dtype inference for column c of a grid of texts
ColIsNum(rows, c) ==
    /\ \E i \in DOMAIN rows : rows[i][c] \notin NaTexts
    /\ \A i \in DOMAIN rows : rows[i][c] \notin NaTexts => rows[i][c] \in NumericTexts

ParseGrid(cols, rows) ==
    Frame(cols,
          [i \in DOMAIN rows |->
              [c \in SeqToSet(cols) |->
                  IF rows[i][c] \in NaTexts THEN NaN
                  ELSE IF ColIsNum(rows, c) THEN Cell("num", rows[i][c])
                  ELSE Cell("str", rows[i][c])]])

Ok(df) == [ok |-> TRUE, df |-> df]

Raise == [ok |-> FALSE, df |-> EmptyFrame]

\* pd.read_csv(path) with the default C parser and utf-8
ReadCsv(f) == IF f.kind = "csv" THEN Ok(ParseGrid(f.cols, f.rows)) ELSE Raise

\* DataFrame.to_csv(path, index=False)
ToCsv(df) ==
    File("csv", df.cols,
         [i \in DOMAIN df.rows |-> [c \in SeqToSet(df.cols) |-> df.rows[i][c].v]])

\* safe_read_csv: utf-8, then latin1, then the lenient python parser that
\* skips malformed lines
safe_read_csv(f) ==
    CASE f.kind = "csv"    -> Ok(ParseGrid(f.cols, f.rows))
      [] f.kind = "latin1" -> Ok(ParseGrid(f.cols, f.rows))
      [] f.kind = "ragged" -> Ok(ParseGrid(f.cols, SubSeq(f.rows, 1, Len(f.rows) - 1)))
      [] OTHER             -> Raise

(***************************************************************************)
(* The data directory.                                                     *)
(***************************************************************************)
\* the *.csv names of the modelled directory, as sorted() orders them
DirOrder == <<"14_15.csv", "All_Seasons.csv", "E0_2014-15.csv", "E0_2425.csv",
              "E0_2526.csv", "E0_latest.csv">>

DirNames == SeqToSet(DirOrder)

\* what the regular expressions of SEASON_PATTERNS and infer_season_from_name
\* match in each name: the pattern and its groups
NameMatch ==
    [n \in DirNames |->
        CASE n = "14_15.csv"      -> [pat |-> "NN_NN",      stem |-> "14_15",      a |-> "14",   b |-> "15"]
          [] n = "E0_2014-15.csv" -> [pat |-> "E0_NNNN-NN", stem |-> "E0_2014-15", a |-> "2014", b |-> "15"]
          [] n = "E0_2425.csv"    -> [pat |-> "E0_NNNN",    stem |-> "E0_2425",    a |-> "24",   b |-> "25"]
          [] n = "E0_2526.csv"    -> [pat |-> "E0_NNNN",    stem |-> "E0_2526",    a |-> "25",   b |-> "26"]
          [] n = "E0_latest.csv"  -> [pat |-> "none",       stem |-> "E0_latest",  a |-> "",     b |-> ""]
          [] OTHER                -> [pat |-> "none",       stem |-> "All_Seasons", a |-> "",    b |-> ""]]

\* the gate that takes every *.csv of the directory for a season file
AnyCsvIsSeasonFile(n) == TRUE

is_season_file(n) == NameMatch[n].pat \in {"NN_NN", "E0_NNNN", "E0_NNNN-NN"}

infer_season_from_name(n) ==
    LET m == NameMatch[n]
    IN  CASE m.pat = "NN_NN"      -> "20" \o m.a \o "/20" \o m.b
          [] m.pat = "E0_NNNN"    -> "20" \o m.a \o "/20" \o m.b
          [] m.pat = "E0_NNNN-NN" -> m.a \o "/20" \o m.b
          [] OTHER                -> m.stem

(***************************************************************************)
(* pandas operations used by the merges.                                   *)
(***************************************************************************)
RECURSIVE UnionCols(_)
\* the columns of pd.concat(parts): their union, in order of first appearance
UnionCols(parts) ==
    IF parts = <<>> THEN <<>>
    ELSE LET head == UnionCols(SubSeq(parts, 1, Len(parts) - 1))
             last == parts[Len(parts)].cols
         IN  head \o SelectSeq(last, LAMBDA c : c \notin SeqToSet(head))

RECURSIVE ConcatRows(_, _)
ConcatRows(parts, cols) ==
    IF parts = <<>> THEN <<>>
    ELSE LET last == parts[Len(parts)]
         IN  ConcatRows(SubSeq(parts, 1, Len(parts) - 1), cols) \o
             [i \in DOMAIN last.rows |->
                 [c \in cols |-> IF c \in SeqToSet(last.cols) THEN last.rows[i][c] ELSE NaN]]

\* pd.concat(parts, ignore_index=True)
Concat(parts) ==
    LET cols == UnionCols(parts) IN Frame(cols, ConcatRows(parts, SeqToSet(cols)))

\* the cells of row r on the columns key
KeyText(r, key) == [c \in key |-> r[c]]

SameKey(r, s, key) == \A c \in key : r[c] = s[c]

\* the indices drop_duplicates(subset=key, keep="first") keeps
KeepFirst(rows, key) ==
    {i \in DOMAIN rows : \A j \in DOMAIN rows : j < i => ~SameKey(rows[i], rows[j], key)}

\* the indices drop_duplicates(subset=key, keep="last") keeps
KeepLast(rows, key) ==
    {i \in DOMAIN rows : \A j \in DOMAIN rows : j > i => ~SameKey(rows[i], rows[j], key)}

\* df.drop_duplicates(subset=key, keep="first")
DropDuplicatesKeepFirst(df, key) == Frame(df.cols, SubseqAt(df.rows, KeepFirst(df.rows, key)))

\* df.drop_duplicates(subset=key, keep="last")
DropDuplicates(df, key) == Frame(df.cols, SubseqAt(df.rows, KeepLast(df.rows, key)))

\* the order of two cells of one sortable column; missing values go last
CellRank(c) == IF c.t = "nan" THEN Len(TextOrder) + 1 ELSE Rank(c.v)

RECURSIVE RowLess(_, _, _)
\* lexicographic order of two rows on the columns by
RowLess(r, s, by) ==
    IF by = <<>> THEN FALSE
    ELSE \/ CellRank(r[by[1]]) < CellRank(s[by[1]])
         \/ /\ CellRank(r[by[1]]) = CellRank(s[by[1]])
            /\ RowLess(r, s, Tail(by))

\* a column holding numbers and strings cannot be ordered: sort_values
\* raises TypeError
Unorderable(df, by) ==
    \E c \in SeqToSet(by) : \E i, j \in DOMAIN df.rows :
        df.rows[i][c].t = "num" /\ df.rows[j][c].t = "str"

\* the position of row i after a stable sort on the columns by
SortedPos(rows, by, i) ==
    1 + Cardinality({j \in DOMAIN rows :
                        \/ RowLess(rows[j], rows[i], by)
                        \/ (j < i /\ ~RowLess(rows[i], rows[j], by))})

\* df.sort_values(by, kind="stable").reset_index(drop=True)
SortValues(df, by) ==
    Frame(df.cols,
          [k \in DOMAIN df.rows |->
              df.rows[CHOOSE i \in DOMAIN df.rows : SortedPos(df.rows, by, i) = k]])

(***************************************************************************)
(* build_all_seasons_csv                                                   *)
(***************************************************************************)
CanonicalKey == <<"Season", "Date", "HomeTeam", "AwayTeam">>

\* sorted([p for p in DATA_DIR.glob("*.csv") if is_season_file(p.name)])
season_files(dir) ==
    SelectSeq(DirOrder, LAMBDA n : dir[n].kind # "absent" /\ is_season_file(n))

Readable(dir) == SelectSeq(season_files(dir), LAMBDA n : safe_read_csv(dir[n]).ok)

\* one element of parts: the frame read, with Season and SeasonFile set
SeasonPart(dir, n) ==
    LET df  == safe_read_csv(dir[n]).df
        df1 == IF "Season" \in SeqToSet(df.cols) THEN df
               ELSE WithColumn(df, "Season", Cell("str", infer_season_from_name(n)))
    IN  WithColumn(df1, "SeasonFile", Cell("str", NameMatch[n].stem))

SeasonParts(dir) ==
    LET rd == Readable(dir) IN [i \in DOMAIN rd |-> SeasonPart(dir, rd[i])]

RECURSIVE CoerceAll(_, _)
CoerceAll(df, cs) ==
    IF cs = <<>> THEN df
    ELSE CoerceAll(IF cs[1] \in SeqToSet(df.cols) THEN CoerceColumn(df, cs[1]) ELSE df,
                   Tail(cs))

\* hist after the concat and the astype(str) of Date, HomeTeam, AwayTeam
HistCoerced(dir) == CoerceAll(Concat(SeasonParts(dir)), <<"Date", "HomeTeam", "AwayTeam">>)

\* key_cols = [c for c in [...] if c in hist.columns]
\* the key candidates but the last one that cols has
KeyColsButLast(candidates, cols) ==
    SelectSeq(SubSeq(candidates, 1, Len(candidates) - 1), LAMBDA c : c \in SeqToSet(cols))

KeyColsOf(candidates, cols) == SelectSeq(candidates, LAMBDA c : c \in SeqToSet(cols))

\* the sort that leaves the season out
SortByDateOnly(cols) == SelectSeq(<<"Date">>, LAMBDA c : c \in SeqToSet(cols))

\* sort_cols = [c for c in ["Season", "Date"] if c in hist.columns]
SortCols(cols) == SelectSeq(<<"Season", "Date">>, LAMBDA c : c \in SeqToSet(cols))

\* hist after drop_duplicates(subset=key_cols, keep="last")
HistDeduped(hist) ==
    LET key == KeyColsOf(CanonicalKey, hist.cols)
    IN  IF key # <<>> THEN DropDuplicates(hist, SeqToSet(key)) ELSE hist

\* the result of build_all_seasons_csv on a directory: what it printed,
\* its key_cols, whether it raised, and the directory afterwards
build_all_seasons_csv(dir) ==
    LET sf      == season_files(dir)
        rd      == Readable(dir)
        skipped == {[m |-> "Skipping", f |-> n] : n \in SeqToSet(sf) \ SeqToSet(rd)}
        dedup   == HistDeduped(HistCoerced(dir))
        key     == KeyColsOf(CanonicalKey, dedup.cols)
        by      == SortCols(dedup.cols)
    IN  IF sf = <<>>
        THEN [raised |-> FALSE, key |-> <<>>, dir |-> dir,
              log |-> {[m |-> "No season files found", f |-> ""]}]
        ELSE IF rd = <<>>
        THEN [raised |-> FALSE, key |-> <<>>, dir |-> dir,
              log |-> skipped \cup {[m |-> "No readable season files", f |-> ""]}]
        ELSE IF by # <<>> /\ Unorderable(dedup, by)
        THEN [raised |-> TRUE, key |-> key, dir |-> dir, log |-> skipped]
        ELSE [raised |-> FALSE, key |-> key,
              dir |-> [dir EXCEPT !["All_Seasons.csv"] =
                          ToCsv(IF by # <<>> THEN SortValues(dedup, by) ELSE dedup)],
              log |-> skipped \cup {[m |-> "Wrote", f |-> "All_Seasons.csv"]}]

(***************************************************************************)
(* save_odds                                                               *)
(***************************************************************************)
OddsKey == <<"game_id", "commence_time", "bookmaker", "market", "name", "point">>

NoSnaps == [t \in 0..MaxClock |-> Absent]

\* combined after concat([old, df]) and drop_duplicates(keep="last")
OddsCombined(old, df) ==
    LET key == KeyColsOf(OddsKey, df.cols)
    IN  \* \E-free binding: the concat is evaluated once
        CHOOSE dd \in {IF key # <<>>
                       THEN DropDuplicates(Concat(<<old, df>>), SeqToSet(key))
                       ELSE DropDuplicates(Concat(<<old, df>>),
                                           SeqToSet(UnionCols(<<old, df>>)))} : TRUE

\* the result of save_odds(df) at time now: whether it raised, its key_cols,
\* and the history and snapshot files afterwards
save_odds(hist, snaps, df, now) ==
    IF df.rows = <<>> \/ df.cols = <<>>
    THEN [raised |-> FALSE, key |-> <<>>, hist |-> hist, snaps |-> snaps, log |-> {}]
    ELSE IF hist.kind # "absent" /\ ~ReadCsv(hist).ok
    THEN [raised |-> TRUE, key |-> <<>>, hist |-> hist,
          snaps |-> [snaps EXCEPT ![now] = ToCsv(df)], log |-> {}]
    ELSE [raised |-> FALSE, key |-> KeyColsOf(OddsKey, df.cols),
          hist |-> ToCsv(OddsCombined(IF hist.kind = "absent" THEN Frame(df.cols, <<>>)
                                      ELSE ReadCsv(hist).df, df)),
          snaps |-> [snaps EXCEPT ![now] = ToCsv(df)],
          log |-> {[m |-> "Saved", f |-> "odds_history.csv"]}]

(***************************************************************************)
(* _anti_join                                                              *)
(***************************************************************************)
KEY_CANDIDATES == <<"Wk", "Day", "Date", "Time", "Home", "Score", "Away", "xG", "xG.1",
                    "Attendance", "Venue", "Referee">>

RECURSIVE JoinBar(_)
\* "|".join(texts)
JoinBar(texts) ==
    IF texts = <<>> THEN ""
    ELSE IF Len(texts) = 1 THEN texts[1]
    ELSE texts[1] \o "|" \o JoinBar(Tail(texts))

\* df.astype(str).agg("|".join, axis=1): one string per row
RowStrings(df) ==
    [i \in DOMAIN df.rows |->
        JoinBar([k \in DOMAIN df.cols |-> AsTypeStr(df.rows[i][df.cols[k]]).v])]

\* df["_row"] = strs: the column is overwritten in place or appended
WithRowColumn(df, strs) ==
    LET cols == IF "_row" \in SeqToSet(df.cols) THEN df.cols ELSE Append(df.cols, "_row")
    IN  Frame(cols,
              [i \in DOMAIN df.rows |->
                  [d \in SeqToSet(cols) |->
                      IF d = "_row" THEN Cell("str", strs[i]) ELSE df.rows[i][d]]])

\* df.drop(columns=[c]) of a column the frame has
DropColumn(df, c) ==
    LET cols == SelectSeq(df.cols, LAMBDA d : d # c)
    IN  Frame(cols, [i \in DOMAIN df.rows |-> [d \in SeqToSet(cols) |-> df.rows[i][d]]])

\* the dtype of a column: numeric when the frame has rows and the column
\* holds no string
NumericCol(df, c) == df.rows # <<>> /\ \A i \in DOMAIN df.rows : df.rows[i][c].t # "str"

StringCol(df, c) == \E i \in DOMAIN df.rows : df.rows[i][c].t = "str"

\* merge refuses to join a numeric column with a column of strings
MergeRaises(left, right, keys) ==
    \E c \in SeqToSet(keys) :
        \/ NumericCol(left, c) /\ StringCol(right, c)
        \/ StringCol(left, c) /\ NumericCol(right, c)

NoResult == [st |-> "none", cols |-> <<>>, rows |-> <<>>]

Raised == [st |-> "raised", cols |-> <<>>, rows |-> <<>>]

Returned(df) == [st |-> "ok", cols |-> df.cols, rows |-> df.rows]

\* no _anti_join in this run
NoDiff == tblA = EmptyFrame /\ tblB = EmptyFrame /\ diffAB = NoResult /\ diffBA = NoResult

\* no run of a script
NoRun ==
    /\ ledger = NoLedger
    /\ sched = [lg \in SeqToSet(Leagues) |-> File("absent", <<>>, <<>>)]
    /\ lastPage = 0
    /\ todo = <<>>
    /\ attempted = <<>>
    /\ failed = {}
    /\ fetched = File("error", <<>>, <<>>)
    /\ written = {}

CommonKeys(new, old) ==
    SelectSeq(KEY_CANDIDATES,
              LAMBDA c : c \in SeqToSet(new.cols) /\ c \in SeqToSet(old.cols))

\* _anti_join(new, old): what it returns, and the two frames afterwards
anti_join(new, old) ==
    LET keys == CommonKeys(new, old)
    IN  IF keys = <<>>
        THEN \* the whole row as one string, stored in both frames
             LET new1 == WithRowColumn(new, RowStrings(new))
                 old1 == WithRowColumn(old, RowStrings(old))
                 seen == {old1.rows[j]["_row"] : j \in DOMAIN old1.rows}
                 keep == {i \in DOMAIN new1.rows : new1.rows[i]["_row"] \notin seen}
             IN  [out |-> Returned(DropColumn(Frame(new1.cols, SubseqAt(new1.rows, keep)),
                                              "_row")),
                  new |-> new1, old |-> old1]
        ELSE IF MergeRaises(new, old, keys)
        THEN [out |-> Raised, new |-> new, old |-> old]
        ELSE \* the left rows that the left merge marks left_only
             LET seen == {KeyText(old.rows[j], SeqToSet(keys)) : j \in DOMAIN old.rows}
                 keep == {i \in DOMAIN new.rows :
                             KeyText(new.rows[i], SeqToSet(keys)) \notin seen}
             IN  [out |-> Returned(Frame(new.cols, SubseqAt(new.rows, keep))),
                  new |-> new, old |-> old]

(***************************************************************************)
(* Inputs of the merge specification: season files drawn from a pool of    *)
(* rows and of file layouts.                                               *)
(***************************************************************************)
ColsFull == <<"Season", "Date", "HomeTeam", "AwayTeam", "FTHG">>

ColsNoSeason == <<"Date", "HomeTeam", "AwayTeam", "FTHG">>

ColsNoTeams == <<"Season", "Date", "FTHG">>

MatchRow(s, d, h, a, g) ==
    [c \in SeqToSet(ColsFull) |->
        CASE c = "Season" -> s [] c = "Date" -> d [] c = "HomeTeam" -> h
          [] c = "AwayTeam" -> a [] OTHER -> g]

\* one match, the same match with another score, and the match with one of
\* its key fields changed (a numeric-looking season, a non-numeric date,
\* another home team, another away team)
RowPool == <<MatchRow("x", "1", "x", "y", "1"),
             MatchRow("x", "1", "x", "y", "2"),
             MatchRow("1", "1", "x", "y", "1"),
             MatchRow("x", "x", "x", "y", "1"),
             MatchRow("x", "1", "y", "y", "1"),
             MatchRow("x", "1", "x", "x", "1")>>

RowSeqs(n) == UNION {[1..k -> DOMAIN RowPool] : k \in 0..n}

\* the layouts of the first season file and of the second
Layouts == {<<"absent", <<>>>>, <<"empty", <<>>>>,
            <<"csv", ColsFull>>, <<"csv", ColsNoSeason>>, <<"csv", ColsNoTeams>>,
            <<"latin1", ColsFull>>, <<"ragged", ColsNoSeason>>}

Layouts2 == {<<"absent", <<>>>>, <<"csv", ColsFull>>, <<"csv", ColsNoSeason>>,
             <<"csv", ColsNoTeams>>}

LayoutFits(lay, idx) ==
    CASE lay[1] \in {"absent", "empty"} -> idx = <<>>
      [] lay[1] = "ragged"              -> idx # <<>>
      [] OTHER                          -> TRUE

\* the file of layout lay holding the pool rows idx
PoolFile(lay, idx) ==
    File(lay[1], lay[2],
         [i \in DOMAIN idx |-> [c \in SeqToSet(lay[2]) |-> RowPool[idx[i]][c]]])

OldMaster == File("csv", <<"Season", "FTHG">>, <<[Season |-> "y", FTHG |-> "2"]>>)

InitDir ==
    \E l1 \in Layouts : \E l2 \in Layouts2 : \E i1 \in RowSeqs(MaxRows) :
    \E i2 \in RowSeqs(MaxRows - Len(i1)) :
    \E third \in {Absent, PoolFile(<<"csv", ColsNoSeason>>, <<1>>)} :
    \E old \in {<<Absent, Absent>>,
                <<OldMaster, PoolFile(<<"csv", ColsFull>>, <<2>>)>>} :
        /\ LayoutFits(l1, i1) /\ LayoutFits(l2, i2)
        /\ files = [n \in DirNames |->
                      CASE n = "14_15.csv"       -> PoolFile(l1, i1)
                        [] n = "E0_2014-15.csv"  -> PoolFile(l2, i2)
                        [] n = "E0_2425.csv"     -> third
                        [] n = "All_Seasons.csv" -> old[1]
                        [] n = "E0_latest.csv"   -> old[2]
                        [] OTHER                 -> Absent]
        /\ log = {}
        /\ keyCols = <<>>
        /\ phase = "dir"
        /\ oddsHist = Absent
        /\ oddsSnaps = NoSnaps
        /\ incoming = EmptyFrame
        /\ clock = 0
        /\ NoDiff
        /\ NoRun

\* one call of build_all_seasons_csv()
Build ==
    /\ phase = "dir"
    /\ \E r \in {build_all_seasons_csv(files)} :
           /\ files' = r.dir
           /\ log' = r.log
           /\ keyCols' = r.key
           /\ phase' = IF r.raised THEN "raised" ELSE "built"
    /\ UNCHANGED <<oddsVars, clock, diffVars, runVars>>

(***************************************************************************)
(* Inputs of save_odds: a history file and an incoming snapshot drawn from *)
(* a pool of odds rows.  The columns are those of fetch_odds_snapshot that *)
(* the merge reads, and two that it passes through.                        *)
(***************************************************************************)
OddsColsFull == <<"pulled_at", "game_id", "commence_time", "bookmaker", "market",
                  "name", "price", "point">>

\* a history written before the market and point columns existed
OddsColsOld == <<"pulled_at", "game_id", "commence_time", "bookmaker", "name", "price">>

\* a table with none of the key columns
OddsColsBare == <<"pulled_at", "price">>

OddsRow(g, m, pr, pt) ==
    [c \in SeqToSet(OddsColsFull) |->
        CASE c = "game_id" -> g [] c = "market" -> m [] c = "price" -> pr
          [] c = "point" -> pt [] OTHER -> "x"]

\* one outcome, the same outcome at another price, and the outcome with one
\* key field changed (an all-digit game id, another market, a point)
OddsPool == <<OddsRow("x", "x", "1", ""),
              OddsRow("x", "x", "2", ""),
              OddsRow("1", "x", "1", ""),
              OddsRow("x", "y", "1", ""),
              OddsRow("x", "x", "1", "1")>>

OddsSeqs(lo, hi) == UNION {[1..k -> DOMAIN OddsPool] : k \in lo..hi}

OddsFile(kind, cols, idx) ==
    File(kind, cols, [i \in DOMAIN idx |-> [c \in SeqToSet(cols) |-> OddsPool[idx[i]][c]]])

\* the cell pd.DataFrame(rows) makes of a JSON value: price and point are
\* numbers or None, every other field is a string
JsonCell(c, text) ==
    IF text = "" THEN NaN
    ELSE IF c \in {"price", "point"} THEN Cell("num", text) ELSE Cell("str", text)

OddsFrame(cols, idx) ==
    Frame(cols,
          [i \in DOMAIN idx |-> [c \in SeqToSet(cols) |-> JsonCell(c, OddsPool[idx[i]][c])]])

InitOdds ==
    \E inc \in OddsSeqs(1, MaxRows + 1) : \E old \in OddsSeqs(0, MaxRows + 1 - Len(inc)) :
    \E hk \in {"absent", "empty", "csv"} : \E hc \in {OddsColsFull, OddsColsOld} :
    \E ic \in {OddsColsFull, OddsColsBare} :
        /\ hk \in {"absent", "empty"} => old = <<>> /\ hc = OddsColsFull
        /\ oddsHist = IF hk = "csv" THEN OddsFile("csv", hc, old) ELSE File(hk, <<>>, <<>>)
        /\ incoming = OddsFrame(ic, inc)
        /\ oddsSnaps = NoSnaps
        /\ clock = 0
        /\ files = [n \in DirNames |-> Absent]
        /\ log = {}
        /\ keyCols = <<>>
        /\ phase = "odds0"
        /\ NoDiff
        /\ NoRun

\* save_odds(incoming), called twice with the same table
SaveOdds ==
    /\ phase \in {"odds0", "odds1"}
    /\ \E r \in {save_odds(oddsHist, oddsSnaps, incoming, clock)} :
           /\ oddsHist' = r.hist
           /\ oddsSnaps' = r.snaps
           /\ log' = r.log
           /\ keyCols' = r.key
           /\ phase' = IF r.raised THEN "raised"
                        ELSE IF phase = "odds0" THEN "odds1" ELSE "odds2"
    /\ UNCHANGED <<dirVars, incoming, clock, diffVars, runVars>>

InitMerge == InitDir \/ InitOdds

NextMerge == Build \/ SaveOdds

SpecMerge == InitMerge /\ [][NextMerge]_vars

(***************************************************************************)
(* Properties of the consolidated table.                                   *)
(***************************************************************************)
Wrote == [m |-> "Wrote", f |-> "All_Seasons.csv"]

\* the texts to_csv writes for a row of typed cells
RowText(r) == [c \in DOMAIN r |-> r[c].v]

KeyInEvery(candidates, frames) ==
    SelectSeq(candidates, LAMBDA c : \A i \in DOMAIN frames : c \in SeqToSet(frames[i].cols))

\* the key columns present in the columns of at least one input table
KeyInSome(candidates, frames) ==
    SelectSeq(candidates, LAMBDA c : \E i \in DOMAIN frames : c \in SeqToSet(frames[i].cols))

\* the frame save_odds reads as the existing history
OddsOld == IF oddsHist.kind = "absent" THEN Frame(incoming.cols, <<>>) ELSE ReadCsv(oddsHist).df

BuildMerges == phase = "dir" /\ phase' \in {"built", "raised"} /\ Readable(files) # <<>>

OddsMerges == phase \in {"odds0", "odds1"} /\ phase' \in {"odds1", "odds2"}

Skipping(n) == [m |-> "Skipping", f |-> n]

Unreadable(dir) == SeqToSet(season_files(dir)) \ SeqToSet(Readable(dir))

C5_SaveOddsIdempotent ==
    [][OddsMerges =>
          /\ phase = "odds1" => oddsHist' = oddsHist
          /\ \A key \in {IF keyCols' # <<>> THEN SeqToSet(keyCols')
                         ELSE SeqToSet(oddsHist'.cols)} :
             \A inc \in {[i \in DOMAIN incoming.rows |->
                            [c \in SeqToSet(oddsHist'.cols) |->
                                IF c \in SeqToSet(incoming.cols)
                                THEN incoming.rows[i][c].v ELSE ""]]} :
             \A i \in DOMAIN inc :
                LET k    == KeyText(inc[i], key)
                    same == {j \in DOMAIN inc : KeyText(inc[j], key) = k}
                    last == CHOOSE j \in same : \A j2 \in same : j2 <= j
                    hits == {j \in DOMAIN oddsHist'.rows :
                                KeyText(oddsHist'.rows[j], key) = k}
                IN  /\ Cardinality(hits) = 1
                    /\ \A j \in hits : oddsHist'.rows[j] = inc[last]]_vars

\* the place of a text of the master table in the order of a column; the
\* empty text of a missing value comes last
TextRank(t) == IF t = "" THEN Len(TextOrder) + 1 ELSE Rank(t)

RECURSIVE TextRowLess(_, _, _)
\* row r of the master table comes strictly before row s on the columns by
TextRowLess(r, s, by) ==
    IF by = <<>> THEN FALSE
    ELSE \/ TextRank(r[by[1]]) < TextRank(s[by[1]])
         \/ /\ TextRank(r[by[1]]) = TextRank(s[by[1]])
            /\ TextRowLess(r, s, Tail(by))

\* two rows of the master table tie on the columns by
TextTie(r, s, by) == \A c \in SeqToSet(by) : r[c] = s[c]

\* no two rows of hist have the same composite key
DisjointKeys(hist) ==
    \A key \in {SeqToSet(CanonicalKey) \cap SeqToSet(hist.cols)} :
    \A i, j \in DOMAIN hist.rows :
        i # j => KeyText(RowText(hist.rows[i]), key) # KeyText(RowText(hist.rows[j]), key)

SchedColsFull == <<"Date", "Home", "Score", "Notes">>

SchedColsNoScore == <<"Date", "Home", "Notes">>

\* no key candidate at all
SchedColsBare == <<"Match Report", "Notes">>

SchedRow(d, sc, n) ==
    [c \in SeqToSet(SchedColsFull) \cup SeqToSet(SchedColsBare) |->
        CASE c = "Date" -> d [] c = "Score" -> sc [] c = "Notes" -> n
          [] c = "Home" -> "x" [] OTHER -> d]

\* one fixture, the fixture with another score, on another (non-numeric)
\* date, and with another note
SchedPool == <<SchedRow("1", "1", "x"), SchedRow("1", "2", "x"),
               SchedRow("x", "1", "x"), SchedRow("1", "1", "y")>>

SchedSeqs(n) == UNION {[1..k -> DOMAIN SchedPool] : k \in 0..n}

SchedFrame(cols, idx) ==
    ParseGrid(cols, [i \in DOMAIN idx |-> [c \in SeqToSet(cols) |-> SchedPool[idx[i]][c]]])

InitDiff ==
    \E ca, cb \in {SchedColsFull, SchedColsNoScore, SchedColsBare} :
    \E ia \in SchedSeqs(MaxDiffRows) : \E ib \in SchedSeqs(MaxDiffRows - Len(ia)) :
        /\ tblA = SchedFrame(ca, ia)
        /\ tblB = SchedFrame(cb, ib)
        /\ diffAB = NoResult
        /\ diffBA = NoResult
        /\ phase = "diff"
        /\ files = [n \in DirNames |-> Absent]
        /\ log = {}
        /\ keyCols = <<>>
        /\ oddsHist = Absent
        /\ oddsSnaps = NoSnaps
        /\ incoming = EmptyFrame
        /\ clock = 0
        /\ NoRun

\* diffAB = _anti_join(tblA, tblB)
AntiJoinAB ==
    /\ phase = "diff" /\ diffAB.st = "none"
    /\ \E r \in {anti_join(tblA, tblB)} :
          /\ diffAB' = r.out
          /\ tblA' = r.new
          /\ tblB' = r.old
    /\ UNCHANGED <<diffBA, phase, files, log, keyCols, oddsVars, clock, runVars>>

\* diffBA = _anti_join(tblB, tblA)
AntiJoinBA ==
    /\ phase = "diff" /\ diffBA.st = "none"
    /\ \E r \in {anti_join(tblB, tblA)} :
          /\ diffBA' = r.out
          /\ tblB' = r.new
          /\ tblA' = r.old
    /\ UNCHANGED <<diffAB, phase, files, log, keyCols, oddsVars, clock, runVars>>

NextDiff == AntiJoinAB \/ AntiJoinBA

SpecDiff == InitDiff /\ [][NextDiff]_vars

\* the table as it was handed in: without the helper column
Orig(df) == IF "_row" \in SeqToSet(df.cols) THEN DropColumn(df, "_row") ELSE df

\* the composite key of each row of df when it is compared with table other
DiffKeys(df, other) ==
    LET keys == CommonKeys(Orig(df), Orig(other))
    IN  IF keys # <<>>
        THEN [i \in DOMAIN df.rows |-> KeyText(df.rows[i], SeqToSet(keys))]
        ELSE [i \in DOMAIN df.rows |-> [row |-> RowStrings(Orig(df))[i]]]

KeySet(df, other) == {DiffKeys(df, other)[i] : i \in DOMAIN df.rows}

\* the rows of df whose key does not occur in other
RowsNotIn(df, other) ==
    SubseqAt(Orig(df).rows,
             {i \in DOMAIN df.rows : DiffKeys(df, other)[i] \notin KeySet(other, df)})

ResultFrame(res) == Frame(res.cols, res.rows)

\* C10: for any two tables a and b, once both calls were made,
\* _anti_join(a, b) and _anti_join(b, a) have returned, their rows share no
\* composite key, _anti_join(a, b) holds exactly the rows of a whose key does
\* not occur in b, and both are empty when a and b have the same set of keys.
C10_DiffSymmetry ==
    (diffAB.st # "none" /\ diffBA.st # "none") =>
        /\ diffAB.st = "ok" /\ diffBA.st = "ok"
        /\ KeySet(ResultFrame(diffAB), tblB) \cap KeySet(ResultFrame(diffBA), tblA) = {}
        /\ diffAB.rows = RowsNotIn(tblA, tblB)
        /\ diffBA.rows = RowsNotIn(tblB, tblA)
        /\ KeySet(tblA, tblB) = KeySet(tblB, tblA) => diffAB.rows = <<>> /\ diffBA.rows = <<>>

\* the call that a step of the diff specification makes has new and old as
\* its arguments and res as its result
CallOf(new, old, res) ==
    \/ new = tblA /\ old = tblB /\ diffAB.st = "none" /\ diffAB' # diffAB /\ res = diffAB'
    \/ new = tblB /\ old = tblA /\ diffBA.st = "none" /\ diffBA' # diffBA /\ res = diffBA'

\* C11: a call of _anti_join leaves the rows and the columns of both of its
\* input tables as they were, on the keyed path and on the whole-row
\* fallback, and with an old table that has no rows it returns all the rows
\* of new.
C11_InputsNotMutated ==
    [][/\ tblA' = tblA
       /\ tblB' = tblB
       /\ \A new, old \in {tblA, tblB} : \A res \in {diffAB', diffBA'} :
             (CallOf(new, old, res) /\ old.rows = <<>>) =>
                 res.st = "ok" /\ res.rows = Orig(new).rows]_vars

(***************************************************************************)
(* fetch_epl_data.py: run() and update_epl_from_football_data_site.        *)
(***************************************************************************)
\* the candidate codes of find_latest_season_url for which the site answers
\* 200: the code of the current season
SeasonCodes == <<"2526">>

\* f"20{code[:2]}/20{code[2:]}"
SeasonOfCode(code) == IF code = "2526" THEN "2025/2026" ELSE "2024/2025"

\* DATA_DIR / f"E0_{code}.csv"
CurrentFile(code) == "E0_" \o code \o ".csv"

\* what the site may serve as E0.csv: a table, the table with another
\* score, and a text that read_csv cannot parse
SitePool == <<PoolFile(<<"csv", ColsNoSeason>>, <<1>>),
              PoolFile(<<"csv", ColsNoSeason>>, <<2>>),
              PoolFile(<<"ragged", ColsNoSeason>>, <<1>>)>>

\* requests raised: no response, or raise_for_status
HttpError == File("error", <<>>, <<>>)

\* md5 hex digests, one for each text of the site
DigestNames == <<"md5-1", "md5-2", "md5-3">>

get_file_hash(text) == DigestNames[CHOOSE i \in DOMAIN SitePool : SitePool[i] = text]

\* the table update_epl_from_football_data_site makes of a text
EplFrame(text, code) ==
    LET df == ReadCsv(text).df
    IN  IF "Season" \in SeqToSet(df.cols) THEN df
        ELSE WithColumn(df, "Season", Cell("str", SeasonOfCode(code)))

\* A fault of the file system or of the process while the three files are
\* written: at is the write it strikes (1 the season file, 2 E0_latest.csv,
\* 3 the ledger, 4 none of them but the process is killed before the
\* master table is built), how tells whether the target was truncated
\* already, kill whether the process dies instead of seeing an exception.
NoFault == [at |-> 0, how |-> "refused", kill |-> FALSE]

WriteFaults ==
    {[at |-> k, how |-> h, kill |-> FALSE] : k \in 1..3, h \in {"refused", "truncated"}}

KillFaults ==
    {[at |-> k, how |-> h, kill |-> TRUE] : k \in 1..3, h \in {"refused", "truncated"}}
        \cup {[at |-> 4, how |-> "refused", kill |-> TRUE]}

\* the gate that never finds the source unchanged
NeverUnchanged(new_hash, old_hash) == FALSE

\* new_hash == old_hash
SourceUnchanged(new_hash, old_hash) == new_hash = old_hash

\* the directory and the ledger after the three writes of the changed path
\* under a fault
EplWrites(dir, led, csv, code, hash, fault) ==
    LET cur == CurrentFile(code)
        d1  == IF fault.at = 1
               THEN IF fault.how = "truncated" THEN [dir EXCEPT ![cur] = EmptyFile] ELSE dir
               ELSE [dir EXCEPT ![cur] = csv]
        d2  == IF fault.at = 1 THEN d1
               ELSE IF fault.at = 2
               THEN IF fault.how = "truncated" THEN [d1 EXCEPT !["E0_latest.csv"] = EmptyFile]
                    ELSE d1
               ELSE [d1 EXCEPT !["E0_latest.csv"] = csv]
        l3  == IF fault.at \in {1, 2} THEN led
               ELSE IF fault.at = 3
               THEN IF fault.how = "truncated" THEN LedgerText("") ELSE led
               ELSE LedgerText(hash)
        opened == {n \in {1, 2, 3} :
                      \/ fault.at \notin 1..3
                      \/ n < fault.at
                      \/ n = fault.at /\ fault.how = "truncated"}
    IN  [dir |-> d2, led |-> l3,
         written |-> {IF n = 1 THEN cur ELSE IF n = 2 THEN "E0_latest.csv" ELSE "E0_hash.txt" :
                         n \in opened}]

NoNewUpdates == [m |-> "No new E0.csv updates detected", f |-> ""]

Updated(code) == [m |-> "Updated", f |-> CurrentFile(code)]

\* update_epl_from_football_data_site() when find_latest_season_url gives
\* code ("none": it raises) and fetch_csv_text gives text: whether an
\* exception left it, whether the process was killed in it, and the
\* directory, the ledger, the messages and the files written
update_epl_from_football_data_site(dir, led, code, text, fault) ==
    IF code = "none" \/ text = HttpError
    THEN [raised |-> TRUE, killed |-> FALSE, dir |-> dir, led |-> led, log |-> {},
          written |-> {}, key |-> <<>>]
    ELSE
    LET new_hash == get_file_hash(text)
        old_hash == IF led.exists THEN led.text ELSE "None"
        same     == SourceUnchanged(new_hash, old_hash)
    IN  IF ~same /\ ~ReadCsv(text).ok
        THEN [raised |-> TRUE, killed |-> FALSE, dir |-> dir, led |-> led, log |-> {},
              written |-> {}, key |-> <<>>]
        ELSE
        \* the if/else on the hashes
        LET w == IF same THEN [dir |-> dir, led |-> led, written |-> {}]
                 ELSE EplWrites(dir, led, ToCsv(EplFrame(text, code)), code, new_hash, fault)
            said == IF same THEN {NoNewUpdates} ELSE {Updated(code)}
        IN  IF ~same /\ fault.at \in 1..3
            THEN [raised |-> ~fault.kill, killed |-> fault.kill, dir |-> w.dir,
                  led |-> w.led, log |-> {}, written |-> w.written, key |-> <<>>]
            ELSE IF fault.at = 4
            THEN [raised |-> FALSE, killed |-> TRUE, dir |-> w.dir, led |-> w.led,
                  log |-> said, written |-> w.written, key |-> <<>>]
            ELSE \* build_all_seasons_csv()
                 LET b == build_all_seasons_csv(w.dir)
                 IN  [raised |-> b.raised, killed |-> FALSE, dir |-> b.dir, led |-> w.led,
                      log |-> said \cup b.log, key |-> b.key,
                      written |-> w.written \cup
                                  (IF Wrote \in b.log THEN {"All_Seasons.csv"} ELSE {})]

RunSources == <<"epl", "api", "odds">>

\* a run() that ends at the first source that fails
AbortOnFailure(src, raised) ==
    IF raised THEN "run_done"
    ELSE IF src = "epl" THEN "api" ELSE IF src = "api" THEN "odds" ELSE "run_done"

\* the try/except blocks of run(): where it goes on after a source
NextSource(src, raised) ==
    IF src = "epl" THEN "api" ELSE IF src = "api" THEN "odds" ELSE "run_done"

EplFailed == [m |-> "EPL site fetch failed", f |-> ""]

ApiFailed == [m |-> "Football API fetch failed", f |-> ""]

OddsFailed == [m |-> "Odds fetch failed", f |-> ""]

NoOddsRows == [m |-> "No odds rows to save", f |-> ""]

\* python fetch_epl_data.py
StartRun ==
    /\ phase \in {"run_idle", "run_done"}
    /\ phase' = "epl"
    /\ attempted' = <<>>
    /\ failed' = {}
    /\ log' = {}
    /\ written' = {}
    /\ keyCols' = <<>>
    /\ incoming' = EmptyFrame
    /\ UNCHANGED <<files, oddsHist, oddsSnaps, clock, diffVars, ledger, sched, lastPage, todo,
                   fetched>>

\* block 1 of run(): update_epl_from_football_data_site() in try/except
EplUpdate ==
    /\ phase = "epl"
    /\ \E code \in SeqToSet(SeasonCodes) \cup {"none"} :
       \E text \in SeqToSet(SitePool) \cup {HttpError} :
       \E fault \in {NoFault} \cup WriteFaults :
       \E r \in {update_epl_from_football_data_site(files, ledger, code, text, fault)} :
          /\ code = "none" => text = HttpError
          /\ fetched' = text
          /\ files' = r.dir
          /\ ledger' = r.led
          /\ keyCols' = r.key
          /\ written' = r.written
          /\ log' = IF r.raised THEN r.log \cup {EplFailed} ELSE r.log
          /\ failed' = IF r.raised THEN failed \cup {"epl"} ELSE failed
          /\ phase' = NextSource("epl", r.raised)
    /\ attempted' = Append(attempted, "epl")
    /\ UNCHANGED <<oddsVars, clock, diffVars, sched, lastPage, todo>>

\* the process is killed while update_epl_from_football_data_site writes
EplKilled ==
    /\ phase = "epl"
    /\ \E code \in SeqToSet(SeasonCodes) : \E text \in SeqToSet(SitePool) :
       \E fault \in KillFaults :
       \E r \in {update_epl_from_football_data_site(files, ledger, code, text, fault)} :
          /\ r.killed
          /\ fetched' = text
          /\ files' = r.dir
          /\ ledger' = r.led
          /\ written' = r.written
          /\ log' = r.log
    /\ phase' = "run_idle"
    /\ attempted' = Append(attempted, "epl")
    /\ UNCHANGED <<keyCols, oddsVars, clock, diffVars, sched, lastPage, todo, failed>>

\* block 2 of run(): fetch_and_save_football_api().  FOOTBALL_PROVIDER is
\* defined nowhere, so the try block of the function raises NameError at
\* its first statement and its own except clause reports it.
FootballApi ==
    /\ phase = "api"
    /\ log' = {ApiFailed}
    /\ failed' = failed \cup {"api"}
    /\ written' = {}
    /\ keyCols' = <<>>
    /\ fetched' = HttpError
    /\ phase' = NextSource("api", FALSE)
    /\ attempted' = Append(attempted, "api")
    /\ UNCHANGED <<files, oddsVars, clock, diffVars, ledger, sched, lastPage, todo>>

\* block 3 of run(): fetch_odds_snapshot() and save_odds(odds).  The
\* snapshot is empty (no key, no game), the request raises, or it holds
\* one outcome.
OddsSnapshot ==
    /\ phase = "odds"
    /\ \E got \in {"empty", "error", "rows"} :
       \E df \in {IF got = "rows" THEN OddsFrame(OddsColsFull, <<1>>) ELSE EmptyFrame} :
       \E r \in {save_odds(oddsHist, oddsSnaps, df, clock)} :
          /\ incoming' = df
          /\ oddsHist' = IF got = "rows" THEN r.hist ELSE oddsHist
          /\ oddsSnaps' = IF got = "rows" THEN r.snaps ELSE oddsSnaps
          /\ keyCols' = r.key
          /\ \E bad \in {got = "error" \/ (got = "rows" /\ r.raised)} :
                /\ log' = IF bad THEN {OddsFailed}
                          ELSE IF got = "empty" THEN {NoOddsRows} ELSE r.log
                /\ failed' = IF bad THEN failed \cup {"odds"} ELSE failed
                /\ phase' = NextSource("odds", bad)
          /\ written' = IF got # "rows" THEN {}
                        ELSE IF r.raised THEN {"odds_snapshot"}
                        ELSE {"odds_snapshot", "odds_history.csv"}
    /\ attempted' = Append(attempted, "odds")
    /\ UNCHANGED <<files, clock, diffVars, ledger, sched, lastPage, todo, fetched>>

(***************************************************************************)
(* update_fbref_team_matchlogs.py: main() and save_league_schedule_csv.    *)
(***************************************************************************)
\* what a schedule page may be: the fixture list, the list with another
\* score and an index column, and a page without a table
PageCols == <<"Unnamed: 0">> \o SchedColsFull

PageRow(i) ==
    [c \in SeqToSet(PageCols) |-> IF c = "Unnamed: 0" THEN "1" ELSE SchedPool[i][c]]

PagePool == <<[kind |-> "html", cols |-> SchedColsFull, rows |-> <<PageRow(1)>>],
              [kind |-> "html", cols |-> PageCols, rows |-> <<PageRow(2)>>],
              [kind |-> "notable", cols |-> <<>>, rows |-> <<>>]>>

\* the pages a request may return; 0 is a request that raises
PageIds == 0..Len(PagePool)

\* _read_schedule_html: the first table of the page without its Unnamed
\* columns
read_schedule_html(page) ==
    IF page.kind # "html" THEN Raise
    ELSE LET cols == SelectSeq(page.cols, LAMBDA c : c # "Unnamed: 0")
         IN  Ok(ParseGrid(cols, [i \in DOMAIN page.rows |->
                                    [c \in SeqToSet(cols) |-> page.rows[i][c]]]))

\* datetime.utcnow().isoformat(timespec="seconds") at second now
Timestamp(now) == "T" \o ToString(now)

\* df.insert(0, c, value)
InsertFirst(df, c, cell) ==
    Frame(<<c>> \o df.cols,
          [i \in DOMAIN df.rows |->
              [d \in SeqToSet(df.cols) \cup {c} |-> IF d = c THEN cell ELSE df.rows[i][d]]])

\* df.drop(columns=[c], errors="ignore"): a new frame
DropIfPresent(df, c) == IF c \in SeqToSet(df.cols) THEN DropColumn(df, c) ELSE df

\* _hash_bytes: equal exactly for equal bytes (collisions of the twelve
\* hex digits are not modelled)
hash_bytes(bytes) == [sha |-> bytes]

\* changed = (added_rows>0 or removed_rows>0 or new_hash!=old_hash)
Changed(added, removed, new_hash, old_hash) ==
    added > 0 \/ removed > 0 \/ new_hash # old_hash

\* save_league_schedule_csv for one league whose file is file, when the
\* request gives page id at second now; fault is what happens to the write:
\* "none", "refused" or "truncated"
save_league_schedule_csv(file, id, now, fault) ==
    LET failure == [raised |-> TRUE, changed |-> FALSE, file |-> file, written |-> FALSE]
    IN  IF id = 0 \/ ~read_schedule_html(PagePool[id]).ok THEN failure
        ELSE
        LET new_df  == InsertFirst(read_schedule_html(PagePool[id]).df, "_fetched_at_utc",
                                   Cell("str", Timestamp(now)))
            new_csv == ToCsv(new_df)
            old     == ReadCsv(file)
            add     == anti_join(DropIfPresent(new_df, "_fetched_at_utc"),
                                 DropIfPresent(old.df, "_fetched_at_utc")).out
            rem     == anti_join(DropIfPresent(old.df, "_fetched_at_utc"),
                                 DropIfPresent(new_df, "_fetched_at_utc")).out
            changed == IF file.kind = "absent" THEN TRUE
                       ELSE Changed(Len(add.rows), Len(rem.rows),
                                    hash_bytes(new_csv), hash_bytes(file))
        IN  IF file.kind # "absent" /\ (~old.ok \/ add.st = "raised" \/ rem.st = "raised")
            THEN failure
            ELSE IF ~changed
            THEN [raised |-> FALSE, changed |-> FALSE, file |-> file, written |-> FALSE]
            ELSE IF fault = "none"
            THEN [raised |-> FALSE, changed |-> TRUE, file |-> new_csv, written |-> TRUE]
            ELSE IF fault = "truncated"
            THEN [raised |-> TRUE, changed |-> TRUE, file |-> EmptyFile, written |-> TRUE]
            ELSE failure

Badge(lg, r) ==
    [m |-> IF r.raised THEN "ERROR" ELSE IF r.changed THEN "UPDATED" ELSE "NO-CHANGE",
     f |-> lg]

\* python update_fbref_team_matchlogs.py
StartMain ==
    /\ phase \in {"main_idle", "main_done"}
    /\ phase' = "leagues"
    /\ todo' = Leagues
    /\ attempted' = <<>>
    /\ failed' = {}
    /\ log' = {}
    /\ written' = {}
    /\ UNCHANGED <<files, keyCols, oddsVars, clock, diffVars, ledger, sched, lastPage, fetched>>

\* one turn of the loop of main(): save_league_schedule_csv in try/except
SyncLeague ==
    /\ phase = "leagues" /\ todo # <<>>
    /\ \E lg \in {Head(todo)} : \E id \in PageIds : \E fault \in {"none", "refused", "truncated"} :
       \E r \in {save_league_schedule_csv(sched[lg], id, clock, fault)} :
          /\ sched' = [sched EXCEPT ![lg] = r.file]
          /\ lastPage' = id
          /\ log' = {Badge(lg, r)}
          /\ failed' = IF r.raised THEN failed \cup {lg} ELSE failed
          /\ written' = IF r.written THEN {lg} ELSE {}
          /\ attempted' = Append(attempted, lg)
    /\ todo' = Tail(todo)
    /\ UNCHANGED <<phase, files, keyCols, oddsVars, clock, diffVars, ledger, fetched>>

\* the end of main(): the commit of the changes is left to git
EndMain ==
    /\ phase = "leagues" /\ todo = <<>>
    /\ phase' = "main_done"
    /\ log' = {}
    /\ written' = {}
    /\ UNCHANGED <<files, keyCols, oddsVars, clock, diffVars, ledger, sched, lastPage,
                   todo, attempted, failed, fetched>>

\* a second passes between two runs of the schedule sync
Tick ==
    /\ phase \in {"main_idle", "main_done"}
    /\ clock < MaxClock
    /\ clock' = clock + 1
    /\ UNCHANGED <<files, log, keyCols, phase, oddsVars, diffVars, runVars>>

\* the process is killed between two sources
Crash ==
    /\ phase \in {"api", "odds", "leagues"}
    /\ phase' = IF phase = "leagues" THEN "main_idle" ELSE "run_idle"
    /\ UNCHANGED <<files, log, keyCols, oddsVars, clock, diffVars, runVars>>

\* a data directory before the first run: empty, or with the file of an
\* earlier season
Init ==
    /\ phase \in {"run_idle", "main_idle"}
    /\ \E old \in {Absent, PoolFile(<<"csv", ColsFull>>, <<1>>)} :
          files = [n \in DirNames |-> IF n = "E0_2014-15.csv" THEN old ELSE Absent]
    /\ log = {}
    /\ keyCols = <<>>
    /\ oddsHist = Absent
    /\ oddsSnaps = NoSnaps
    /\ incoming = EmptyFrame
    /\ clock = 0
    /\ NoDiff
    /\ NoRun

NextLive ==
    \/ StartRun \/ EplUpdate \/ FootballApi \/ OddsSnapshot
    \/ StartMain \/ SyncLeague \/ EndMain
    \/ Tick

Next == NextLive \/ EplKilled \/ Crash

Spec == Init /\ [][Next]_vars

\* the position of the process in its script
control == <<phase, todo>>

\* a step to any position
Moves ==
    /\ phase' \in {"run_idle", "epl", "api", "odds", "run_done",
                  "main_idle", "leagues", "main_done"}
    /\ todo' \in {SubSeq(Leagues, k, Len(Leagues)) : k \in 1..Len(Leagues) + 1}

\* the runs of a process that nothing kills: every call returns or raises,
\* so the process does not stay at one position for ever, and the script is
\* started again and again
SpecLive == Init /\ [][NextLive]_vars /\ WF_control(Moves)

\* the table the changed path persists for text i of the site
TableOf(i, code) == ToCsv(EplFrame(SitePool[i], code))

\* C1: the season file and E0_latest.csv are written before the ledger, so
\* that after any sequence of runs, write errors and kills, whenever
\* E0_hash.txt holds the digest of a text of the site, E0_<code>.csv and
\* E0_latest.csv hold the rows of that text.
C1_LedgerImpliesTable ==
    \A i \in DOMAIN SitePool :
        (ledger.exists /\ ledger.text = DigestNames[i]) =>
            \E code \in SeqToSet(SeasonCodes) :
                /\ files[CurrentFile(code)] = TableOf(i, code)
                /\ files["E0_latest.csv"] = TableOf(i, code)

\* a step of update_epl_from_football_data_site that fetched a text whose
\* digest the ledger holds
EplMatches ==
    /\ phase = "epl" /\ phase' = "api"
    /\ fetched'.kind # "error"
    /\ ledger.exists /\ ledger.text = get_file_hash(fetched')

\* C2 as stated: when the digest of the fetched text equals the digest in
\* E0_hash.txt, update_epl_from_football_data_site writes no file, leaves
\* the ledger unchanged and reports the source as unchanged.
C2_NoFileWrittenOnMatch ==
    [][EplMatches =>
          /\ written' = {}
          /\ files' = files
          /\ ledger' = ledger
          /\ NoNewUpdates \in log']_vars

\* C2 amended: when the digest of the fetched text equals the digest in
\* E0_hash.txt, update_epl_from_football_data_site writes neither a season
\* file nor E0_latest.csv nor the ledger and reports the source as
\* unchanged; the only file it may write is All_Seasons.csv, which it
\* rebuilds from the season files on every run.
C2_OnlyMasterWrittenOnMatch ==
    [][EplMatches =>
          /\ written' \subseteq {"All_Seasons.csv"}
          /\ \A n \in DirNames \ {"All_Seasons.csv"} : files'[n] = files[n]
          /\ ledger' = ledger
          /\ NoNewUpdates \in log']_vars

\* C2 witness: an update that found the digest of the ledger and rebuilt the
\* master table all the same.
C2_Witness ==
    /\ phase = "api" /\ NoNewUpdates \in log
    /\ ledger.exists /\ fetched.kind # "error" /\ ledger.text = get_file_hash(fetched)
    /\ "All_Seasons.csv" \in written

\* what a sync of page id at second t leaves in league_schedule.csv
StoredPage(id, t) ==
    ToCsv(InsertFirst(read_schedule_html(PagePool[id]).df, "_fetched_at_utc",
                      Cell("str", Timestamp(t))))

\* C3: when the sync of a league fetches the page that an earlier sync
\* stored in league_schedule.csv, it does not rewrite the file and reports
\* NO-CHANGE.
C3_SamePageNoRewrite ==
    [][(/\ phase = "leagues" /\ todo # <<>> /\ todo' = Tail(todo)
        /\ lastPage' # 0
        /\ PagePool[lastPage'].kind = "html"
        /\ \E t \in 0..MaxClock : sched[Head(todo)] = StoredPage(lastPage', t))
          => /\ sched'[Head(todo)] = sched[Head(todo)]
             /\ Head(todo) \notin written'
             /\ log' = {[m |-> "NO-CHANGE", f |-> Head(todo)]}]_vars

\* C6: when the synchronisation of a source fails, the files of the source
\* are after the failure what they were before it: E0_<code>.csv,
\* E0_latest.csv and E0_hash.txt for the EPL source, league_schedule.csv for
\* a league.
C6_FailureLeavesFilesUntouched ==
    [][/\ (phase = "epl" /\ "epl" \in failed') =>
            /\ \A code \in SeqToSet(SeasonCodes) :
                  files'[CurrentFile(code)] = files[CurrentFile(code)]
            /\ files'["E0_latest.csv"] = files["E0_latest.csv"]
            /\ ledger' = ledger
       /\ (phase = "leagues" /\ todo # <<>> /\ Head(todo) \in failed') =>
            sched'[Head(todo)] = sched[Head(todo)]]_vars

\* C7: in every run each source is attempted exactly once whatever failed
\* before it: run() attempts the EPL update, the football API and the odds
\* snapshot, main() attempts every league, and every run that starts
\* reaches its end.
C7_EverySourceAttemptedOnce ==
    /\ [](\A i, j \in DOMAIN attempted : i # j => attempted[i] # attempted[j])
    /\ [](phase = "run_done" => attempted = RunSources)
    /\ [](phase = "main_done" => attempted = Leagues)
    /\ (phase = "epl" ~> phase = "run_done")
    /\ (phase = "leagues" ~> phase = "main_done")

\* C7 witness: a run() that reached its end after the EPL update failed and
\* that attempted the three sources.
C7_Witness ==
    phase = "run_done" /\ "epl" \in failed /\ attempted = RunSources

\* what the files that are no season file may hold in another state of the
\* directory: the master table of an earlier run and E0_latest.csv
OtherFiles ==
    {<<m, l>> : m \in {Absent, EmptyFile, OldMaster},
                l \in {Absent, EmptyFile, PoolFile(<<"csv", ColsFull>>, <<2>>)}}

\* a directory with the season files of dir and the other files of oth
SameSeasonFiles(dir, oth) ==
    [n \in DirNames |-> IF n = "All_Seasons.csv" THEN oth[1]
                        ELSE IF n = "E0_latest.csv" THEN oth[2] ELSE dir[n]]

\* a step of update_epl_from_football_data_site that fetched a text and
\* came to the end of the if/else on the hashes: the ledger matched, or the
\* three files were written
EplReachesRebuild ==
    /\ phase = "epl" /\ phase' = "api"
    /\ fetched'.kind # "error"
    /\ \/ ledger.exists /\ ledger.text = get_file_hash(fetched')
       \/ "E0_hash.txt" \in written' /\ ledger' = LedgerText(get_file_hash(fetched'))

====
